---------------------------- MODULE Spec2Model ----------------------------
(***************************************************************************)
(* DaisySP delay line (DelayLineView<T>, Source/Control/phasor.cpp lines   *)
(* 74-180) as a state machine.                                             *)
(*                                                                         *)
(* The sample type T and the float fields are modelled by exact rationals  *)
(* <<n, d>> in lowest terms (d > 0); <<0, 0>> stands for a NaN, which is   *)
(* one of the values an uninitialised float can hold.  All inputs are      *)
(* small dyadic rationals, for which float arithmetic is exact.            *)
(*                                                                         *)
(* size_t and int32_t arithmetic is modular.  TLC's integers are 32-bit    *)
(* signed, so both types are modelled at a width of 30 bits: everything    *)
(* the model stores stays far below 2^30, and the only places where the    *)
(* width shows are the ones the code has too (write_ptr_ - 1 at 0, the     *)
(* conversion of a negative int32_t to size_t).                            *)
(***************************************************************************)
EXTENDS Integers, Sequences, FiniteSets, TLC

VARIABLES
    sample_rate_, \* float sample_rate_ : Phasor, samples per second
    freq_,       \* float freq_       : Phasor, frequency, clamped at 0
    inc_,        \* float inc_        : Phasor, phase increment per Process
    phs_,        \* float phs_        : Phasor, the phase
    max_size_,   \* size_t max_size_  : capacity of the bound buffer
    line_,       \* T* line_          : the buffer, a function 0..max_size_-1 -> T
    write_ptr_,  \* size_t write_ptr_ : next slot to write
    delay_,      \* size_t delay_     : stored integer delay
    frac_,       \* float frac_       : stored fractional delay
    call,        \* history: the last call made, its arguments, the storage
                 \*          indices it used and the value it returned
    nwrites,     \* history: number of Write/Allpass calls since the last Reset
    run          \* history: the Write calls made since the last Reset or
                 \*          Allpass, the last max_size_ of them: the cursor
                 \*          each one found (w) and the sample it stored (s);
                 \*          and the values stored by the Allpass calls made
                 \*          since the last Reset or Write (a), likewise

vars == <<sample_rate_, freq_, inc_, phs_,
          max_size_, line_, write_ptr_, delay_, frac_, call, nwrites, run>>

core == <<max_size_, line_, write_ptr_, delay_, frac_>>

phasor == <<sample_rate_, freq_, inc_, phs_>>

---------------------------------------------------------------------------
(* Bounds of the model *)

\* largest capacity explored by the free-running specification
MaxCap == 3

\* largest capacity explored by the scripted scenarios
MaxScenCap == 7

\* Write/Allpass calls allowed between two Resets in the free-running specification
MaxWrites == 3

\* Process is not explored further once the phase exceeds this value
MaxPhase == 3

---------------------------------------------------------------------------
(* Exact rational arithmetic standing for T = float *)

Abs(i) == IF i < 0 THEN -i ELSE i

RECURSIVE GCD(_, _)
GCD(a, b) == IF b = 0 THEN a ELSE GCD(b, a % b)

NaN == <<0, 0>>

IsNaN(x) == x[2] = 0

\* n/d in lowest terms with a positive denominator
Rat(n, d) ==
    IF d = 0 THEN NaN
    ELSE LET g == GCD(Abs(n), Abs(d))
             s == IF d < 0 THEN -1 ELSE 1
         IN  <<(s * n) \div g, (s * d) \div g>>

\* static_cast<float>(i) / T(i)
FromInt(i) == <<i, 1>>

Zero == FromInt(0)

One == FromInt(1)

Half == <<1, 2>>

RAdd(x, y) ==
    IF IsNaN(x) \/ IsNaN(y) THEN NaN
    ELSE Rat(x[1] * y[2] + y[1] * x[2], x[2] * y[2])

RNeg(x) == IF IsNaN(x) THEN NaN ELSE <<-x[1], x[2]>>

RSub(x, y) == RAdd(x, RNeg(y))

RMul(x, y) ==
    IF IsNaN(x) \/ IsNaN(y) THEN NaN
    ELSE Rat(x[1] * y[1], x[2] * y[2])

\* x / y; a zero divisor gives NaN (infinities are not modelled)
RDiv(x, y) ==
    IF IsNaN(x) \/ IsNaN(y) THEN NaN
    ELSE Rat(x[1] * y[2], x[2] * y[1])

\* x > y; false when either operand is NaN
RGt(x, y) == ~IsNaN(x) /\ ~IsNaN(y) /\ x[1] * y[2] > y[1] * x[2]

\* fmax(x, y): the larger operand, the other one when one is NaN
FMax(x, y) ==
    IF IsNaN(x) THEN y
    ELSE IF IsNaN(y) THEN x
    ELSE IF RGt(y, x) THEN y ELSE x

\* static_cast<int32_t>(float): truncation toward zero
Trunc(x) ==
    IF x[1] >= 0 THEN x[1] \div x[2] ELSE -((-x[1]) \div x[2])

---------------------------------------------------------------------------
(* Machine integers *)

\* number of values of a size_t (and of an int32_t) in the model
SizeMod == 2^30

\* size_t addition
SzAdd(a, b) == (a + b) % SizeMod

\* size_t subtraction
SzSub(a, b) == (a - b + SizeMod) % SizeMod

\* conversion of an int32_t to size_t
ToSize(i) == i % SizeMod

\* conversion of a size_t to int32_t
ToInt32(u) == IF u >= SizeMod \div 2 THEN u - SizeMod ELSE u

---------------------------------------------------------------------------
(* Input sets *)

\* capacities
Caps == 1..MaxCap

\* samples passed to Write and Allpass
Samples == {Zero, One}

\* allpass coefficients
Coeffs == {Half}

\* arguments of SetDelay(size_t): below, at and beyond the capacity
IntDelays(cap) == 0..cap \cup {cap + 10}

\* float delays: the multiples of 1/2 from -1 to cap + 1/2.  They are the
\* arguments of SetDelay(float), and the arguments over which the read
\* operators are evaluated in every reachable state
FloatDelays(cap) == {Rat(k, 2) : k \in (-2)..(2 * cap + 1)}

\* arguments of the recorded Read(float) and ReadHermite(float) calls: a
\* negative delay, zero, a fractional delay in range and one beyond the capacity
ReadDelays(cap) == {FromInt(-1), Zero, Rat(3, 2), Rat(2 * cap + 1, 2)}

\* arguments `delay' of Allpass
AllpassDelays(cap) == 0..cap

\* what the uninitialised frac_ may hold after Init
FracGarbage == {Zero, Rat(3, 2), NaN}

NoCall(op) ==
    [op |-> op, n |-> 0, x |-> Zero, s |-> Zero, g |-> Zero,
     w |-> 0, idx |-> <<>>, ret |-> Zero]

---------------------------------------------------------------------------
(* Phasor *)

\* a Phasor that is not in use
PhasorIdle ==
    /\ sample_rate_ = One
    /\ freq_ = Zero
    /\ inc_ = Zero
    /\ phs_ = Zero

\* SetFreq(freq)
SetFreq(freq) ==
    /\ freq_' = FMax(freq, Zero)
    /\ inc_' = RDiv(freq_', sample_rate_)
    /\ UNCHANGED <<sample_rate_, phs_>>

\* Process(): the phase after phs_ += inc_ and the single conditional
\* subtraction
NextPhase(phs, inc) ==
    LET sum == RAdd(phs, inc)
    IN  IF RGt(sum, One) THEN RSub(sum, One) ELSE sum

\* Process(); the value returned is the phase before the step
Process ==
    /\ phs_' = NextPhase(phs_, inc_)
    /\ UNCHANGED <<sample_rate_, freq_, inc_>>

---------------------------------------------------------------------------
(* DelayLineView<T> *)

\* Reset(): the cleared buffer
ClearedLine(cap) == [i \in 0..(cap - 1) |-> Zero]

\* the empty run of Write calls
NoRun == [w |-> <<>>, s |-> <<>>, a |-> <<>>]

\* the last n elements of a sequence
LastN(q, n) == IF Len(q) <= n THEN q ELSE SubSeq(q, Len(q) - n + 1, Len(q))

\* Init(buf, max_size): binds the buffer and resets.  frac_ is not assigned.
InitOn(caps) ==
    /\ max_size_ \in caps
    /\ line_ = ClearedLine(max_size_)
    /\ write_ptr_ = 0
    /\ delay_ = 1
    /\ frac_ \in FracGarbage
    /\ call = NoCall("Init")
    /\ nwrites = 0
    /\ run = NoRun

Init == InitOn(Caps) /\ PhasorIdle

\* a Reset that clears the fraction as well
ResetFracZero ==
    /\ line_' = ClearedLine(max_size_)
    /\ write_ptr_' = 0
    /\ delay_' = 1
    /\ frac_' = Zero
    /\ UNCHANGED max_size_

\* a Reset that forgets the cursor
ResetKeepsCursor ==
    /\ line_' = ClearedLine(max_size_)
    /\ delay_' = 1
    /\ UNCHANGED <<max_size_, frac_, write_ptr_>>

\* a Reset that clears the stored delay too
ResetDelayZero ==
    /\ line_' = ClearedLine(max_size_)
    /\ write_ptr_' = 0
    /\ delay_' = 0
    /\ UNCHANGED <<max_size_, frac_>>

\* Reset(): clears the buffer, write_ptr_ = 0, delay_ = 1; frac_ is left alone
Reset ==
    /\ line_' = ClearedLine(max_size_)
    /\ write_ptr_' = 0
    /\ delay_' = 1
    /\ UNCHANGED <<max_size_, frac_>>

\* a clamp that is off by one: delay <= max_size_ ? delay : max_size_ - 1
ClampDelayInclusive(delay, cap) == IF delay <= cap THEN delay ELSE SzSub(cap, 1)

\* SetDelay: delay < max_size_ ? delay : max_size_ - 1, on size_t operands
ClampDelay(delay, cap) == IF delay < cap THEN delay ELSE SzSub(cap, 1)

\* SetDelay(size_t delay)
SetDelay(delay) ==
    /\ frac_' = Zero
    /\ delay_' = ClampDelay(delay, max_size_)
    /\ UNCHANGED <<max_size_, line_, write_ptr_>>

\* a fractional part that keeps the whole delay: frac_ = delay
FracOfWhole(delay) == delay

\* SetDelay(float delay): frac_ = delay - float(int_delay)
FracOf(delay) == RSub(delay, FromInt(Trunc(delay)))

\* SetDelay(float delay)
SetDelayF(delay) ==
    /\ frac_' = FracOf(delay)
    /\ delay_' = ClampDelay(ToSize(Trunc(delay)), max_size_)
    /\ UNCHANGED <<max_size_, line_, write_ptr_>>

\* a cursor that moves forward: (write_ptr_ + 1) % max_size_
NextWritePtrForward(w, cap) == SzAdd(w, 1) % cap

\* a decrement that does not wrap: write_ptr_ - 1 in signed arithmetic
NextWritePtrSigned(w, cap) == w - 1

\* the cursor after a write: (write_ptr_ - 1 + max_size_) % max_size_ in size_t
NextWritePtr(w, cap) == SzAdd(SzSub(w, 1), cap) % cap

\* a Write that stores the sample after moving the cursor
WriteAfterMove(sample) ==
    /\ line_' = [line_ EXCEPT ![NextWritePtr(write_ptr_, max_size_)] = sample]
    /\ write_ptr_' = NextWritePtr(write_ptr_, max_size_)
    /\ UNCHANGED <<max_size_, delay_, frac_>>

\* Write(sample)
Write(sample) ==
    /\ line_' = [line_ EXCEPT ![write_ptr_] = sample]
    /\ write_ptr_' = NextWritePtr(write_ptr_, max_size_)
    /\ UNCHANGED <<max_size_, delay_, frac_>>

\* a + (b - a) * frac
Lerp(a, b, f) == RAdd(a, RMul(RSub(b, a), f))

\* indices one slot too far: (write_ptr_ + delay_ + 1) % max_size_ and the next
ReadIdxNext(w, d, cap) ==
    <<SzAdd(SzAdd(w, d), 1) % cap, SzAdd(SzAdd(w, d), 2) % cap>>

\* Read(): the two indices (write_ptr_ + delay_) % max_size_ and
\* (write_ptr_ + delay_ + 1) % max_size_
ReadIdx(w, d, cap) == <<SzAdd(w, d) % cap, SzAdd(SzAdd(w, d), 1) % cap>>

\* Read() on a buffer: a + (b - a) * frac_
ReadOn(line, w, d, f, cap) ==
    LET i == ReadIdx(w, d, cap)
    IN  Lerp(line[i[1]], line[i[2]], f)

\* Read(): value returned
ReadVal == ReadOn(line_, write_ptr_, delay_, frac_, max_size_)

\* indices that saturate at max_size_ - 1, as the stored delay does
ReadAtIdxClamped(w, di, cap) == ReadIdx(w, ClampDelay(ToSize(di), cap), cap)

\* Read(float delay): the two indices; delay_integral is an int32_t that is
\* converted to size_t by the addition
ReadAtIdx(w, di, cap) == ReadIdx(w, ToSize(di), cap)

\* Read(float delay) on a buffer
ReadAtOn(line, w, delay, cap) ==
    LET i == ReadAtIdx(w, Trunc(delay), cap)
    IN  Lerp(line[i[1]], line[i[2]], FracOf(delay))

\* Read(float delay): value returned
ReadAtVal(delay) == ReadAtOn(line_, write_ptr_, delay, max_size_)

\* t without the bias: int32_t t = (write_ptr_ + delay_integral)
HermiteTNoBias(w, di, cap) == ToInt32(SzAdd(w, ToSize(di)))

\* ReadHermite: int32_t t = (write_ptr_ + delay_integral + max_size_)
HermiteT(w, di, cap) == ToInt32(SzAdd(SzAdd(w, ToSize(di)), cap))

\* ReadHermite: the indices (t - 1) % max_size_ .. (t + 2) % max_size_
HermiteIdx(w, di, cap) ==
    LET t == HermiteT(w, di, cap)
    IN  <<ToSize(t - 1) % cap, ToSize(t) % cap,
          ToSize(t + 1) % cap, ToSize(t + 2) % cap>>

\* the polynomial with a slope that is not halved: c = x1 - xm1
HermitePolyNoHalf(xm1, x0, x1, x2, f) ==
    LET c     == RSub(x1, xm1)
        v     == RSub(x0, x1)
        w     == RAdd(c, v)
        a     == RAdd(RAdd(w, v), RMul(RSub(x2, x0), Half))
        b_neg == RAdd(w, a)
    IN  RAdd(RMul(RAdd(RMul(RSub(RMul(a, f), b_neg), f), c), f), x0)

\* ReadHermite: the interpolation polynomial
HermitePoly(xm1, x0, x1, x2, f) ==
    LET c     == RMul(RSub(x1, xm1), Half)
        v     == RSub(x0, x1)
        w     == RAdd(c, v)
        a     == RAdd(RAdd(w, v), RMul(RSub(x2, x0), Half))
        b_neg == RAdd(w, a)
    IN  RAdd(RMul(RAdd(RMul(RSub(RMul(a, f), b_neg), f), c), f), x0)

\* ReadHermite(float delay) on a buffer
ReadHermiteOn(line, w, delay, cap) ==
    LET i == HermiteIdx(w, Trunc(delay), cap)
    IN  HermitePoly(line[i[1]], line[i[2]], line[i[3]], line[i[4]],
                    FracOf(delay))

\* ReadHermite(float delay): value returned
ReadHermiteVal(delay) == ReadHermiteOn(line_, write_ptr_, delay, max_size_)

\* an index one slot further: (write_ptr_ + delay + 1) % max_size_
AllpassIdxBehind(w, delay, cap) == SzAdd(SzAdd(w, delay), 1) % cap

\* Allpass: index of `read'
AllpassIdx(w, delay, cap) == SzAdd(w, delay) % cap

\* the feedback with its sign flipped: write = sample - coefficient * read
AllpassWriteMinus(sample, read, coefficient) ==
    RSub(sample, RMul(coefficient, read))

\* Allpass: write = sample + coefficient * read
AllpassWrite(sample, read, coefficient) == RAdd(sample, RMul(coefficient, read))

\* the output with the feed-forward sign flipped: write * coefficient + read
AllpassOutPlus(write, read, coefficient) ==
    RAdd(RMul(write, coefficient), read)

\* Allpass: return -write * coefficient + read
AllpassOut(write, read, coefficient) ==
    RAdd(RMul(RNeg(write), coefficient), read)

\* Allpass(sample, delay, coefficient): state change
Allpass(sample, delay, coefficient) ==
    Write(AllpassWrite(sample,
                       line_[AllpassIdx(write_ptr_, delay, max_size_)],
                       coefficient))

---------------------------------------------------------------------------
(* The calls, with the history they leave *)

DoReset ==
    /\ Reset
    /\ call' = [NoCall("Reset") EXCEPT !.w = write_ptr_, !.n = nwrites]
    /\ nwrites' = 0
    /\ run' = NoRun
    /\ UNCHANGED phasor

DoSetDelay(n) ==
    /\ SetDelay(n)
    /\ call' = [NoCall("SetDelay") EXCEPT !.n = n, !.w = write_ptr_]
    /\ UNCHANGED <<nwrites, run>>
    /\ UNCHANGED phasor

DoSetDelayF(x) ==
    /\ SetDelayF(x)
    /\ call' = [NoCall("SetDelayF") EXCEPT !.x = x, !.n = Trunc(x),
                                           !.w = write_ptr_]
    /\ UNCHANGED <<nwrites, run>>
    /\ UNCHANGED phasor

DoWrite(s) ==
    /\ Write(s)
    /\ call' = [NoCall("Write") EXCEPT !.s = s, !.w = write_ptr_,
                                       !.idx = <<write_ptr_>>]
    /\ run' = [w |-> LastN(Append(run.w, write_ptr_), max_size_),
               s |-> LastN(Append(run.s, s), max_size_),
               a |-> <<>>]
    /\ nwrites' = nwrites + 1
    /\ UNCHANGED phasor

DoRead ==
    /\ call' = [NoCall("Read") EXCEPT
                   !.n = delay_, !.x = RAdd(FromInt(delay_), frac_),
                   !.w = write_ptr_,
                   !.idx = ReadIdx(write_ptr_, delay_, max_size_),
                   !.ret = ReadVal]
    /\ UNCHANGED <<core, nwrites, run>>
    /\ UNCHANGED phasor

DoReadAt(x) ==
    /\ call' = [NoCall("ReadAt") EXCEPT
                   !.n = Trunc(x), !.x = x, !.w = write_ptr_,
                   !.idx = ReadAtIdx(write_ptr_, Trunc(x), max_size_),
                   !.ret = ReadAtVal(x)]
    /\ UNCHANGED <<core, nwrites, run>>
    /\ UNCHANGED phasor

DoReadHermite(x) ==
    /\ call' = [NoCall("ReadHermite") EXCEPT
                   !.n = Trunc(x), !.x = x, !.w = write_ptr_,
                   !.idx = HermiteIdx(write_ptr_, Trunc(x), max_size_),
                   !.ret = ReadHermiteVal(x)]
    /\ UNCHANGED <<core, nwrites, run>>
    /\ UNCHANGED phasor

DoAllpass(s, d, g) ==
    LET i  == AllpassIdx(write_ptr_, d, max_size_)
        rd == line_[i]
        wr == AllpassWrite(s, rd, g)
    IN  /\ Allpass(s, d, g)
        /\ call' = [NoCall("Allpass") EXCEPT
                       !.s = s, !.n = d, !.g = g, !.w = write_ptr_,
                       !.x = rd,
                       !.idx = <<i, write_ptr_>>,
                       !.ret = AllpassOut(wr, rd, g)]
        /\ run' = [NoRun EXCEPT !.a = LastN(Append(run.a, wr), max_size_)]
        /\ nwrites' = nwrites + 1
        /\ UNCHANGED phasor

---------------------------------------------------------------------------
(* Free-running specification: any call, any argument *)

CallReset == DoReset

CallSetDelay == \E n \in IntDelays(max_size_) : DoSetDelay(n)

CallSetDelayF == \E x \in FloatDelays(max_size_) : DoSetDelayF(x)

CallWrite == nwrites < MaxWrites /\ \E s \in Samples : DoWrite(s)

CallRead == DoRead

CallReadAt == \E x \in ReadDelays(max_size_) : DoReadAt(x)

CallReadHermite == \E x \in ReadDelays(max_size_) : DoReadHermite(x)

CallAllpass ==
    /\ nwrites < MaxWrites
    /\ \E s \in Samples, d \in AllpassDelays(max_size_), g \in Coeffs : DoAllpass(s, d, g)

Next ==
    \/ CallReset
    \/ CallSetDelay
    \/ CallSetDelayF
    \/ CallWrite
    \/ CallRead
    \/ CallReadAt
    \/ CallReadHermite
    \/ CallAllpass

Spec == Init /\ [][Next]_vars

---------------------------------------------------------------------------
(* Scenario: a unit impulse through a delay of d samples.  Init, SetDelay(d)
   with 1 <= d < capacity, then ticks 0 .. capacity-1, each a Write (1 at
   tick 0, 0 afterwards) followed by a Read(). *)

ImpulseSetDelay ==
    /\ call.op = "Init"
    /\ \E d \in 1..(max_size_ - 1) : DoSetDelay(d)

ImpulseWrite ==
    /\ call.op \in {"SetDelay", "Read"}
    /\ nwrites < max_size_
    /\ DoWrite(IF nwrites = 0 THEN One ELSE Zero)

ImpulseRead ==
    /\ call.op = "Write"
    /\ DoRead

InitImpulse == InitOn(2..MaxScenCap) /\ PhasorIdle

NextImpulse ==
    \/ ImpulseSetDelay
    \/ ImpulseWrite
    \/ ImpulseRead

SpecImpulse == InitImpulse /\ [][NextImpulse]_vars

---------------------------------------------------------------------------
(* Scenario: the ring wraps.  Init, SetDelay(1), then 2 x capacity ticks,
   the n-th of which writes the value n and then calls Read(). *)

RingSetDelay ==
    /\ call.op = "Init"
    /\ DoSetDelay(1)

RingWrite ==
    /\ call.op \in {"SetDelay", "Read"}
    /\ nwrites < 2 * max_size_
    /\ DoWrite(FromInt(nwrites + 1))

RingRead ==
    /\ call.op = "Write"
    /\ DoRead

InitRing == InitOn(3..MaxScenCap) /\ PhasorIdle

NextRing ==
    \/ RingSetDelay
    \/ RingWrite
    \/ RingRead

SpecRing == InitRing /\ [][NextRing]_vars

---------------------------------------------------------------------------
(* Scenario: a unit impulse through the allpass.  Init, then 2 x D Allpass
   calls with one delay D, 1 <= D < capacity, and one coefficient g,
   |g| < 1; the first call has input 1, the others input 0. *)

\* coefficients of the impulse scenario
ImpulseCoeffs == {Half, RNeg(Half), Rat(1, 4)}

AllpassFirst ==
    /\ call.op = "Init"
    /\ \E d \in 1..(max_size_ - 1), g \in ImpulseCoeffs : DoAllpass(One, d, g)

AllpassNext ==
    /\ call.op = "Allpass"
    /\ nwrites < 2 * call.n
    /\ DoAllpass(Zero, call.n, call.g)

InitAllpass == InitOn(2..MaxScenCap) /\ PhasorIdle

NextAllpass ==
    \/ AllpassFirst
    \/ AllpassNext

SpecAllpass == InitAllpass /\ [][NextAllpass]_vars

---------------------------------------------------------------------------
(* Scenario: a linear ramp.  Init, then up to 2 x capacity Writes, the n-th
   of which writes n x step; once capacity values are written, a
   Read(delay) followed by a ReadHermite(delay) with the same delay, whose
   integer part is in 1 .. capacity-1, may follow each Write. *)

\* steps of the ramp
RampSteps == {One, Rat(3, 2)}

\* delays read in the ramp scenario: integer part 1..cap-1, fraction in quarters
RampDelays(cap) == {Rat(k, 4) : k \in 4..(4 * cap - 1)}

\* the step of the ramp written so far: the n-th value written is n x step
RampStep == RMul(run.s[Len(run.s)], Rat(1, nwrites))

RampFirst ==
    /\ call.op = "Init"
    /\ \E step \in RampSteps : DoWrite(step)

RampWrite ==
    /\ call.op \in {"Write", "ReadHermite"}
    /\ nwrites < 2 * max_size_
    /\ DoWrite(RMul(RampStep, FromInt(nwrites + 1)))

RampReadAt ==
    /\ call.op = "Write"
    /\ nwrites >= max_size_
    /\ \E x \in RampDelays(max_size_) : DoReadAt(x)

RampReadHermite ==
    /\ call.op = "ReadAt"
    /\ DoReadHermite(call.x)

InitRamp == InitOn(3..MaxScenCap) /\ PhasorIdle

NextRamp ==
    \/ RampFirst
    \/ RampWrite
    \/ RampReadAt
    \/ RampReadHermite

SpecRamp == InitRamp /\ [][NextRamp]_vars

---------------------------------------------------------------------------
(* Scenario: Reset after a fractional delay.  Init, SetDelay(d + f) with
   f # 0, Reset, then Writes and Read() calls. *)

\* the non-zero fractions of the scenario
FrameFractions == {Rat(1, 4), Half, Rat(3, 4)}

\* delays d + f with d in 0 .. cap and f a non-zero fraction
FrameDelays(cap) == {RAdd(FromInt(d), f) : d \in 0..cap, f \in FrameFractions}

FrameSetDelay ==
    /\ call.op = "Init"
    /\ \E x \in FrameDelays(max_size_) : DoSetDelayF(x)

FrameReset ==
    /\ call.op = "SetDelayF"
    /\ DoReset

FrameWrite ==
    /\ call.op \in {"Reset", "Write", "Read"}
    /\ nwrites < MaxWrites
    /\ \E s \in Samples : DoWrite(s)

FrameRead ==
    /\ call.op \in {"Reset", "Write"}
    /\ DoRead

InitFrame == InitOn(2..MaxScenCap) /\ PhasorIdle

NextFrame ==
    \/ FrameSetDelay
    \/ FrameReset
    \/ FrameWrite
    \/ FrameRead

SpecResetFrame == InitFrame /\ [][NextFrame]_vars

---------------------------------------------------------------------------
(* Scenario: the allpass fed with arbitrary input.  Init, then up to
   capacity + 2 Allpass calls with one delay D, 1 <= D < capacity, and one
   coefficient; the inputs are positive, so every stored value is. *)

\* inputs of the feedback scenario
FeedbackSamples == {One, FromInt(2)}

FeedbackFirst ==
    /\ call.op = "Init"
    /\ \E s \in FeedbackSamples, d \in 1..(max_size_ - 1), g \in Coeffs :
           DoAllpass(s, d, g)

FeedbackNext ==
    /\ call.op = "Allpass"
    /\ nwrites < max_size_ + 2
    /\ \E s \in FeedbackSamples : DoAllpass(s, call.n, call.g)

InitFeedback == InitOn(2..MaxScenCap) /\ PhasorIdle

NextFeedback ==
    \/ FeedbackFirst
    \/ FeedbackNext

SpecFeedback == InitFeedback /\ [][NextFeedback]_vars

---------------------------------------------------------------------------
(* Scenario: the Phasor.  It starts with a phase in [0, 1) and a positive
   sample rate; then SetFreq and Process calls in any order. *)

\* sample rates
SampleRates == {FromInt(2), FromInt(4)}

\* frequencies passed to SetFreq
Freqs == {FromInt(-1), Zero, Half, One, FromInt(3), FromInt(6)}

\* phases the Phasor starts with
StartPhases == {Zero, Rat(1, 4), Half, Rat(3, 4)}

\* the Phasor before the first SetFreq
PhasorStart ==
    /\ sample_rate_ \in SampleRates
    /\ phs_ \in StartPhases
    /\ freq_ = Zero
    /\ inc_ = Zero

DoSetFreq(freq) ==
    /\ SetFreq(freq)
    /\ call' = [NoCall("SetFreq") EXCEPT !.x = freq]
    /\ UNCHANGED <<core, nwrites, run>>

DoProcess ==
    /\ Process
    /\ call' = [NoCall("Process") EXCEPT !.ret = phs_]
    /\ UNCHANGED <<core, nwrites, run>>

PhasorSetFreq == \E freq \in Freqs : DoSetFreq(freq)

PhasorProcess ==
    /\ ~RGt(phs_, FromInt(MaxPhase))
    /\ DoProcess

InitPhasor == InitOn({1}) /\ PhasorStart

NextPhasor ==
    \/ PhasorSetFreq
    \/ PhasorProcess

SpecPhasor == InitPhasor /\ [][NextPhasor]_vars

---------------------------------------------------------------------------
(* Claims *)

(* C1 as stated: in the impulse scenario Read() returns 1 at tick d and 0 at
   every other tick of 0 .. capacity-1. *)
ImpulseAtDelay ==
    call.op = "Read" =>
        call.ret = (IF nwrites - 1 = delay_ THEN One ELSE Zero)

(* C1 amended: in the impulse scenario Read() returns 1 at tick d - 1 and 0
   at every other tick of 0 .. capacity-1: a Read() that follows a Write
   returns the sample written delay_ - 1 writes before that Write. *)
ImpulseAtDelayMinusOne ==
    call.op = "Read" =>
        call.ret = (IF nwrites - 1 = delay_ - 1 THEN One ELSE Zero)

\* with a delay of 3 the impulse has come out at tick 2
ImpulseOut ==
    /\ call.op = "Read"
    /\ delay_ = 3
    /\ nwrites - 1 = 2
    /\ call.ret = One

(* C2 as stated: in the ring scenario every Read() from the second write on
   returns the value of the previous Write. *)
RingReadsPrevious ==
    (call.op = "Read" /\ nwrites >= 2) => call.ret = FromInt(nwrites - 1)

(* C2 amended: in the ring scenario every Read() returns the value of the
   Write just made, also after the cursor has wrapped once and twice. *)
RingReadsLatest ==
    call.op = "Read" => call.ret = FromInt(nwrites)

\* the last Read() of the scenario, after two full cycles of the cursor
RingTwoCycles ==
    /\ call.op = "Read"
    /\ nwrites = 2 * max_size_
    /\ write_ptr_ = 0
    /\ call.ret = FromInt(2 * max_size_)

\* the impulse response: -g at call 0, 1 - g^2 at call D, 0 elsewhere
AllpassResponse(k, D, g) ==
    CASE k = 0 -> RNeg(g)
      [] k = D -> RSub(One, RMul(g, g))
      [] OTHER -> Zero

(* C10 as stated: in the allpass scenario with D = 3 the outputs of the
   first 2 x D calls are g at call 0, 0 at calls 1 .. D-1, 1 - g^2 at call D
   and 0 at calls D+1 .. 2D-1. *)
AllpassImpulseFirstG ==
    (call.op = "Allpass" /\ call.n = 3) =>
        call.ret = (IF nwrites - 1 = 0 THEN call.g
                    ELSE AllpassResponse(nwrites - 1, call.n, call.g))

(* C10 amended: in the allpass scenario, for every D in 1 .. capacity-1
   (D = 3 among them), the outputs of the first 2 x D calls are -g at call
   0, 0 at calls 1 .. D-1, 1 - g^2 at call D and 0 at calls D+1 .. 2D-1. *)
AllpassImpulse ==
    call.op = "Allpass" =>
        call.ret = AllpassResponse(nwrites - 1, call.n, call.g)

\* with D = 3 and g = 1/2, call 3 has returned 3/4
AllpassEcho ==
    /\ call.op = "Allpass"
    /\ call.n = 3
    /\ call.g = Half
    /\ nwrites - 1 = 3
    /\ call.ret = Rat(3, 4)

Max(a, b) == IF a >= b THEN a ELSE b

\* the calls that set the stored delay
IsSetDelay(c) == c.op \in {"SetDelay", "SetDelayF"}

(* C3: in every reachable state 0 <= write_ptr_ < max_size_, for every
   capacity >= 1, also right after the write that decrements the cursor
   from 0. *)
CursorInRange == write_ptr_ \in 0..(max_size_ - 1)

\* a write at cursor 0 has wrapped the cursor to max_size_ - 1
CursorWrapped ==
    /\ call.op = "Write"
    /\ call.w = 0
    /\ max_size_ >= 2
    /\ write_ptr_ = max_size_ - 1

(* C4 as stated: in every reachable state 1 <= delay_ <= max_size_ - 1
   (read on the capacities >= 2, for which that range is not empty). *)
DelayInRange == max_size_ >= 2 => (1 <= delay_ /\ delay_ <= max_size_ - 1)

(* C4 amended: in every reachable state 0 <= delay_ <= max(1, max_size_ - 1);
   every SetDelay call leaves delay_ <= max_size_ - 1; a SetDelay call
   whose argument has integer part 0 leaves delay_ = 0, and delay_ becomes 0
   in no other way, except by any SetDelay call on a capacity of 1; with a
   capacity >= 2, delay_ >= 1 after Reset and after every SetDelay call
   whose argument has an integer part >= 1. *)
DelayBounds ==
    /\ [](delay_ \in 0..Max(1, max_size_ - 1))
    /\ [][/\ IsSetDelay(call') => delay_' <= max_size_ - 1
          /\ (delay_' = 0 /\ delay_ # 0) =>
                 IsSetDelay(call') /\ (call'.n = 0 \/ max_size_ = 1)
          /\ (IsSetDelay(call') /\ call'.n >= 1 /\ max_size_ >= 2) =>
                 delay_' >= 1
          /\ (IsSetDelay(call') /\ call'.n = 0) => delay_' = 0
          /\ call'.op = "Reset" => delay_' = 1]_vars

\* SetDelay(0) has stored a delay of 0 in a buffer of capacity >= 2
DelayZeroStored ==
    /\ call.op = "SetDelay"
    /\ call.n = 0
    /\ max_size_ >= 2
    /\ delay_ = 0

\* the mathematical (w + k) mod cap
RingIdx(w, k, cap) == (w + k) % cap

\* integer delays from 0 to beyond twice the capacity
IndexDelays(cap) == 0..(2 * cap + 1)

\* the indices a recorded call must have used, from its cursor and its delay
ExpectedIdx(c, cap) ==
    CASE c.op = "Write"       -> <<c.w>>
      [] c.op = "Read"        -> <<RingIdx(c.w, c.n, cap), RingIdx(c.w, c.n + 1, cap)>>
      [] c.op = "ReadAt"      -> <<RingIdx(c.w, c.n, cap), RingIdx(c.w, c.n + 1, cap)>>
      [] c.op = "ReadHermite" -> <<RingIdx(c.w, c.n - 1, cap), RingIdx(c.w, c.n, cap),
                                   RingIdx(c.w, c.n + 1, cap), RingIdx(c.w, c.n + 2, cap)>>
      [] c.op = "Allpass"     -> <<RingIdx(c.w, c.n, cap), c.w>>
      [] OTHER                -> <<>>

(* C5: in every reachable state, every storage index that Write, Read(),
   Read(delay), ReadHermite(delay) and Allpass use for a delay whose integer
   part d is >= 0 (also d >= capacity) lies in 0..max_size_-1 and is the
   mathematical (write_ptr_ + k) mod max_size_ of its offset k; this is so
   for the indices the last call used and for those any next call would use. *)
IndexSafety ==
    LET cap == max_size_
        w   == write_ptr_
    IN  /\ w \in 0..(cap - 1)
        /\ ReadIdx(w, delay_, cap) =
              <<RingIdx(w, delay_, cap), RingIdx(w, delay_ + 1, cap)>>
        /\ \A d \in IndexDelays(cap) :
              /\ ReadAtIdx(w, d, cap) =
                    <<RingIdx(w, d, cap), RingIdx(w, d + 1, cap)>>
              /\ HermiteIdx(w, d, cap) =
                    <<RingIdx(w, d - 1, cap), RingIdx(w, d, cap),
                      RingIdx(w, d + 1, cap), RingIdx(w, d + 2, cap)>>
              /\ AllpassIdx(w, d, cap) = RingIdx(w, d, cap)
        /\ call.n >= 0 =>
              /\ call.idx = ExpectedIdx(call, cap)
              /\ \A i \in 1..Len(call.idx) : call.idx[i] \in 0..(cap - 1)

\* ReadHermite(0) at cursor 0 has read the slot before the cursor, max_size_ - 1
HermiteBelowZero ==
    /\ call.op = "ReadHermite"
    /\ call.n = 0
    /\ call.w = 0
    /\ max_size_ >= 3
    /\ call.idx = <<max_size_ - 1, 0, 1, 2 % max_size_>>

Min(a, b) == IF a <= b THEN a ELSE b

(* C6: for every n >= 1 and every capacity >= 2, SetDelay(n) leaves
   delay_ = min(n, max_size_ - 1) and frac_ = 0, and changes neither the
   storage nor the cursor. *)
IntSetDelayClamps ==
    [][(call'.op = "SetDelay" /\ call'.n >= 1 /\ max_size_ >= 2) =>
          /\ delay_' = Min(call'.n, max_size_ - 1)
          /\ frac_' = Zero
          /\ UNCHANGED <<line_, write_ptr_, max_size_>>]_vars

\* SetDelay(capacity + 10) has stored capacity - 1
DelayClamped ==
    /\ call.op = "SetDelay"
    /\ call.n = max_size_ + 10
    /\ max_size_ >= 2
    /\ delay_ = max_size_ - 1
    /\ frac_ = Zero

\* float delays whose integer part is in 1..cap-1
InRangeDelays(cap) == {x \in FloatDelays(cap) : Trunc(x) \in 1..(cap - 1)}

\* fractions of a stored delay
Fractions == {Zero, Half, Rat(3, 4)}

(* C7: a Reset leaves every slot 0, write_ptr_ = 0 and delay_ = 1, so that
   Read() (with any stored delay in 1..max_size_-1 and any finite frac_),
   Read(delay) and ReadHermite(delay) return 0 for every in-range delay; a
   Reset that follows a Reset changes nothing. *)
ResetClears ==
    [][call'.op = "Reset" =>
          /\ \A i \in 0..(max_size_ - 1) : line_'[i] = Zero
          /\ DOMAIN line_' = 0..(max_size_ - 1)
          /\ write_ptr_' = 0
          /\ delay_' = 1
          /\ ~IsNaN(frac_') =>
                ReadOn(line_', write_ptr_', delay_', frac_', max_size_) = Zero
          /\ \A d \in 1..(max_size_ - 1), f \in Fractions :
                ReadOn(line_', write_ptr_', d, f, max_size_) = Zero
          /\ \A x \in InRangeDelays(max_size_) :
                /\ ReadAtOn(line_', write_ptr_', x, max_size_) = Zero
                /\ ReadHermiteOn(line_', write_ptr_', x, max_size_) = Zero
          /\ call.op = "Reset" => UNCHANGED core]_vars

\* a Reset has been made on a buffer that had been written twice and whose
\* cursor had moved
ResetAfterWrites ==
    /\ call.op = "Reset"
    /\ call.n >= 2
    /\ call.w # 0
    /\ max_size_ >= 3
    /\ \A i \in 0..(max_size_ - 1) : line_[i] = Zero
    /\ write_ptr_ = 0
    /\ ~IsNaN(frac_)
    /\ frac_ # Zero

(* C8: Write(s) at cursor w stores s at line_[w], changes no other slot and
   neither delay_ nor frac_, and moves the cursor to (w - 1 + max_size_) mod
   max_size_; after max_size_ Writes in a row the cursor is back where the
   first of them found it and slot (w - j + 1) mod max_size_ holds the j-th
   of their samples, so every slot holds one of them. *)
WriteStep ==
    [][call'.op = "Write" =>
          /\ line_' = [line_ EXCEPT ![write_ptr_] = call'.s]
          /\ line_'[write_ptr_] = call'.s
          /\ write_ptr_' = (write_ptr_ - 1 + max_size_) % max_size_
          /\ UNCHANGED <<delay_, frac_, max_size_>>
          /\ Len(run'.s) = max_size_ =>
                /\ write_ptr_' = run'.w[1]
                /\ \A j \in 1..max_size_ :
                      line_'[(run'.w[1] - j + 1) % max_size_] = run'.s[j]
                /\ \A i \in 0..(max_size_ - 1) :
                      \E j \in 1..max_size_ : line_'[i] = run'.s[j]]_vars

\* max_size_ Writes in a row, the first at a cursor other than 0, have
\* brought the cursor back
WriteCycleDone ==
    /\ call.op = "Write"
    /\ max_size_ >= 2
    /\ Len(run.s) = max_size_
    /\ run.w[1] # 0
    /\ write_ptr_ = run.w[1]
    /\ run.s[1] # run.s[2]

(* C9: Allpass(sample, D, g) at cursor w reads history = line_[(w + D) mod
   max_size_] from the storage as it was, stores toWrite = sample + g *
   history at line_[w], moves the cursor once to (w - 1 + max_size_) mod
   max_size_, returns history - g * toWrite, and changes no other slot and
   neither delay_ nor frac_: the state it leaves is the one Write(toWrite)
   leaves. *)
AllpassStep ==
    [][call'.op = "Allpass" =>
          LET history == line_[(write_ptr_ + call'.n) % max_size_]
              toWrite == RAdd(call'.s, RMul(call'.g, history))
          IN  /\ line_' = [line_ EXCEPT ![write_ptr_] = toWrite]
              /\ write_ptr_' = (write_ptr_ - 1 + max_size_) % max_size_
              /\ call'.ret = RSub(history, RMul(call'.g, toWrite))
              /\ UNCHANGED <<delay_, frac_, max_size_>>
              /\ Write(toWrite)]_vars

\* Allpass(0, D, 1/2) has read a 1 at a delay D that is not the stored one
\* and returned 1 - 1/4
AllpassFedBack ==
    /\ call.op = "Allpass"
    /\ call.n # delay_
    /\ call.n >= 1
    /\ call.g = Half
    /\ call.s = Zero
    /\ call.ret = Rat(3, 4)
    /\ line_[call.w] = Half


(* C11: in every reachable state Read(d + capacity + f) returns what
   Read(d + f) returns, for every integer d >= 0 and every fraction f in
   [0, 1): the position wraps modulo the capacity and does not saturate; a
   Read(delay) call changes neither line_, write_ptr_, delay_ nor frac_. *)
ReadAliases ==
    /\ [](\A x \in FloatDelays(max_size_) :
             x[1] >= 0 =>
                 ReadAtOn(line_, write_ptr_, RAdd(x, FromInt(max_size_)),
                          max_size_)
                     = ReadAtOn(line_, write_ptr_, x, max_size_))
    /\ [][call'.op = "ReadAt" =>
             /\ UNCHANGED core
             /\ call'.n >= max_size_ =>
                   call'.ret = ReadAtOn(line_, write_ptr_,
                                        RSub(call'.x, FromInt(max_size_)),
                                        max_size_)]_vars

\* Read(capacity + 1/2) has returned 1/2, the blend of the slots at offsets 0
\* and 1; the slots at offsets capacity - 1 and capacity, which a saturated
\* position would blend, hold one and the same value
ReadBeyondCapacity ==
    /\ call.op = "ReadAt"
    /\ max_size_ >= 3
    /\ call.x = Rat(2 * max_size_ + 1, 2)
    /\ call.ret = Half
    /\ line_[(write_ptr_ + max_size_ - 1) % max_size_] = line_[write_ptr_]


(* C12 as stated: in the ramp scenario, for every delay with integer part in
   1 .. capacity-1 and every fraction, ReadHermite(delay) returns what
   Read(delay) returns. *)
HermiteEqualsLinear ==
    call.op = "ReadHermite" =>
        call.ret = ReadAtOn(line_, write_ptr_, call.x, max_size_)

(* C12 amended: in the ramp scenario the slots at ring offsets d and d + 1
   hold the ramp samples a = (n - d + 1) x step and b = (n - d) x step, for
   every d in 1 .. capacity-1; Read(d + f) returns a + (b - a) x f, the ramp
   value (n - d + 1 - f) x step; ReadHermite(d + f) returns that same value
   when d is in 2 .. capacity-2, and returns a when f = 0. *)
RampInterpolation ==
    call.op \in {"ReadAt", "ReadHermite"} =>
        LET d    == call.n
            f    == FracOf(call.x)
            a    == line_[(write_ptr_ + d) % max_size_]
            b    == line_[(write_ptr_ + d + 1) % max_size_]
            ramp == RMul(RampStep, RSub(FromInt(nwrites - d + 1), f))
        IN  /\ a = RMul(RampStep, FromInt(nwrites - d + 1))
            /\ b = RMul(RampStep, FromInt(nwrites - d))
            /\ ramp = RAdd(a, RMul(RSub(b, a), f))
            /\ call.op = "ReadAt" => call.ret = ramp
            /\ (call.op = "ReadHermite" /\ d \in 2..(max_size_ - 2)) =>
                   call.ret = ramp
            /\ (call.op = "ReadHermite" /\ f = Zero) => call.ret = a

\* ReadHermite(2 + 1/4) has returned the ramp value between two samples,
\* after the cursor has wrapped
HermiteOnRamp ==
    /\ call.op = "ReadHermite"
    /\ call.x = Rat(9, 4)
    /\ max_size_ >= 4
    /\ nwrites > max_size_
    /\ call.ret = RMul(RampStep, RSub(FromInt(nwrites - 1), Rat(1, 4)))


(* C13: from any reachable state with cursor w, for every d in
   1 .. capacity-1, SetDelay(d + 0.5) stores delay_ = d and frac_ = 1/2, and
   Read() in the resulting state returns (x + y) / 2, where x and y are the
   slots at (w + d) mod capacity and (w + d + 1) mod capacity; a Read() call
   made right after that SetDelay returns this value. *)
HalfBlend ==
    /\ [][(/\ call'.op = "SetDelayF"
           /\ call'.n \in 1..(max_size_ - 1)
           /\ call'.x = RAdd(FromInt(call'.n), Half)) =>
              LET x == line_[(write_ptr_ + call'.n) % max_size_]
                  y == line_[(write_ptr_ + call'.n + 1) % max_size_]
              IN  /\ delay_' = call'.n
                  /\ frac_' = Half
                  /\ ReadOn(line_', write_ptr_', delay_', frac_', max_size_')
                         = RMul(RAdd(x, y), Half)]_vars
    /\ [][(/\ call'.op = "Read"
           /\ call.op = "SetDelayF"
           /\ call.n \in 1..(max_size_ - 1)
           /\ call.x = RAdd(FromInt(call.n), Half)) =>
              LET x == line_[(write_ptr_ + call.n) % max_size_]
                  y == line_[(write_ptr_ + call.n + 1) % max_size_]
              IN  call'.ret = RMul(RAdd(x, y), Half)]_vars

\* Read() with delay 2 and fraction 1/2 has returned the mean of a 1 and a 0
HalfBlendRead ==
    /\ call.op = "Read"
    /\ delay_ = 2 /\ frac_ = Half
    /\ nwrites >= 2
    /\ {line_[call.idx[1]], line_[call.idx[2]]} = {Zero, One}
    /\ call.ret = Half


(* C14 as stated: in every state reachable after Init, frac_ is a defined
   value f with 0 <= f < 1. *)
FracInRange ==
    /\ ~IsNaN(frac_)
    /\ frac_[1] >= 0
    /\ frac_[1] < frac_[2]


(* C15: Reset leaves frac_, max_size_ and the bound buffer's extent
   unchanged and stores delay_ = 1; after SetDelay(d + f) with f # 0 followed
   by Reset, frac_ is still f, Writes do not change it, and every later
   Read() returns the blend a + (b - a) x f of the slots a and b at ring
   offsets 1 and 2. *)
ResetFrame ==
    /\ [][call'.op = "Reset" =>
              /\ frac_' = frac_
              /\ max_size_' = max_size_
              /\ DOMAIN line_' = DOMAIN line_
              /\ delay_' = 1
              /\ call.op = "SetDelayF" =>
                     /\ frac_' = RSub(call.x, FromInt(call.n))
                     /\ frac_' \in FrameFractions]_vars
    /\ [][call.op \in {"Reset", "Write", "Read"} =>
              /\ frac_' = frac_
              /\ delay_' = 1]_vars
    /\ [](call.op = "Read" =>
              /\ frac_ \in FrameFractions
              /\ call.ret = Lerp(line_[(write_ptr_ + 1) % max_size_],
                                 line_[(write_ptr_ + 2) % max_size_], frac_))

\* after SetDelay(d + 1/4) and Reset, Read() has returned 3/4: the blend of
\* the 1 at offset 1 and the 0 at offset 2, not the sample at offset 1
ResetKeptFraction ==
    /\ call.op = "Read"
    /\ max_size_ >= 3
    /\ frac_ = Rat(1, 4)
    /\ line_[(write_ptr_ + 1) % max_size_] = One
    /\ line_[(write_ptr_ + 2) % max_size_] = Zero
    /\ call.ret = Rat(3, 4)


(* C16: after Reset and n Writes of v_1 .. v_n (run.s holds the last
   capacity of them), for every k in 1 .. capacity the slot at ring offset k
   holds v_(n-k+1) when k <= n and 0 when k > n; Read(k) retrieves it; the
   slot at offset 1 is the most recent write, the slot at offset 0 is the
   oldest retained one, and the next Write replaces exactly that slot. *)
HistoryInvariant ==
    /\ [](LET m == Len(run.s)
          IN  /\ m = Min(nwrites, max_size_)
              /\ \A k \in 1..max_size_ :
                     LET v == IF k <= nwrites THEN run.s[m - k + 1] ELSE Zero
                     IN  /\ line_[(write_ptr_ + k) % max_size_] = v
                         /\ ReadAtOn(line_, write_ptr_, FromInt(k), max_size_) = v
                         /\ k <= nwrites => v = FromInt(nwrites - k + 1)
              /\ nwrites >= 1 => line_[(write_ptr_ + 1) % max_size_] = run.s[m]
              /\ line_[write_ptr_] =
                     IF nwrites >= max_size_ THEN run.s[1] ELSE Zero)
    /\ [][call'.op = "Write" =>
              line_' = [line_ EXCEPT ![write_ptr_] = call'.s]]_vars

\* more than capacity values written: the slot under the cursor holds the
\* oldest retained value and the next slot the newest
HistoryWrapped ==
    /\ call.op = "Write"
    /\ nwrites = max_size_ + 2
    /\ line_[write_ptr_] = FromInt(3)
    /\ line_[(write_ptr_ + 1) % max_size_] = FromInt(nwrites)
    /\ \A k \in 1..max_size_ : line_[(write_ptr_ + k) % max_size_] # Zero


(* C17: after Init/Reset, in a sequence of Allpass calls with one delay D,
   1 <= D <= capacity-1, the history value read by call k (recorded in
   call.x) is 0 when k <= D, and when k > D it is the value that call k - D
   stored (run.a holds the values stored by the last capacity calls, call
   k's last). *)
AllpassFeedbackDistance ==
    call.op = "Allpass" =>
        LET D == call.n
            m == Len(run.a)
        IN  /\ D \in 1..(max_size_ - 1)
            /\ m = Min(nwrites, max_size_)
            /\ call.x = IF nwrites <= D THEN Zero ELSE run.a[m - D]
            /\ run.a[m] = AllpassWrite(call.s, call.x, call.g)
            /\ run.a[m] # Zero

\* an Allpass call later than the capacity-th, with delay 2, has read a
\* stored value that itself contains feedback
AllpassDeepFeedback ==
    /\ call.op = "Allpass"
    /\ call.n = 2
    /\ nwrites > max_size_
    /\ call.x = run.a[Len(run.a) - 2]
    /\ call.x[2] >= 4


\* x is a defined value in [0, 1]
InUnit(x) == ~IsNaN(x) /\ ~RGt(Zero, x) /\ ~RGt(x, One)

(* C18 as stated: for a phase starting in [0, 1) and any frequency passed to
   SetFreq, after any number of Process calls the stored phase is in [0, 1]
   and every value returned by Process is in [0, 1]. *)
PhasorBounded ==
    /\ InUnit(phs_)
    /\ call.op = "Process" => InUnit(call.ret)

=============================================================================
